---- MODULE Spec2Model ----
(***************************************************************************)
(* Model of backend/app.py: the /search, /scrape, /summarize handlers and  *)
(* the /search_scrape_summarize pipeline that composes them on one asyncio *)
(* event loop.                                                             *)
(*                                                                         *)
(* Text is a sequence of one-character strings.  An exception is a record  *)
(* [exc, status, detail]; a message is a sequence of tokens, so that "the  *)
(* message carries X" is "X is one of its tokens".  One action is one run  *)
(* of a coroutine between two suspension points of the event loop.         *)
(***************************************************************************)
EXTENDS Integers, Sequences, FiniteSets, TLC

VARIABLES
    pc,            \* position of the search_scrape_summarize coroutine
    engine,        \* the engine argument of the request
    searchCalls,   \* GET requests sent to a search backend: sequence of backend names
    searchResp,    \* value returned by search_topic (articles_response)
    urls,          \* urls (line 148)
    ftask,         \* the scrape_url tasks gathered at line 37, by position
    fdone,         \* positions of the scrape_url tasks in completion order
    fetchCalls,    \* GET requests sent for pages: sequence of urls
    contents,      \* contents (line 152)
    chunks,        \* chunks (line 158)
    stask,         \* the summarize tasks gathered at line 163, by position
    sdone,         \* positions of the summarize tasks in completion order
    summCalls,     \* contents with which summarize() was entered, in call order
    llmCalls,      \* contents sent to the completion service, in call order
    final_summary, \* final_summary (line 169)
    response,      \* what the client of the pipeline receives
    spc,           \* /scrape called on its own: position
    sin,           \* /scrape called on its own: what the GET of the url yields
    sout,          \* /scrape called on its own: outcome of scrape_url
    cpc,           \* the split step on its own: position
    cs,            \* the split step on its own: the text
    cm,            \* the split step on its own: the chunk size
    cout           \* the split step on its own: the chunks

pipeVars == <<pc, engine, searchCalls, searchResp, urls, ftask, fdone, fetchCalls,
              contents, chunks, stask, sdone, summCalls, llmCalls, final_summary, response>>
scrapeVars == <<spc, sin, sout>>
chunkVars == <<cpc, cs, cm, cout>>
vars == <<pipeVars, scrapeVars, chunkVars>>

----------------------------------------------------------------------------
(* Bounds of the model *)

\* most results a search backend answers with (the pipeline keeps 3 of them)
MaxArticles == 4
\* most paragraphs of a page given to /scrape on its own
MaxParas == 3
\* longest text given to the split step on its own
MaxLen == 5
\* largest chunk size given to the split step on its own
MaxChunk == 4

----------------------------------------------------------------------------
(* Python helpers *)

Min(a, b) == IF a < b THEN a ELSE b

Rep(n, c) == [i \in 1..n |-> c]

\* sep.join(list)
RECURSIVE JoinWith(_, _)
JoinWith(sep, list) ==
    IF list = <<>> THEN <<>>
    ELSE IF Len(list) = 1 THEN list[1]
    ELSE list[1] \o sep \o JoinWith(sep, Tail(list))

Contains(msg, tok) == \E i \in 1..Len(msg) : msg[i] = tok

\* every token of part occurs in whole
Carries(whole, part) == \A i \in 1..Len(part) : Contains(whole, part[i])

IsSpace(c) == c \in {" ", "\n"}

RECURSIVE FirstNonSpace(_, _)
FirstNonSpace(s, i) ==
    IF i > Len(s) THEN i
    ELSE IF IsSpace(s[i]) THEN FirstNonSpace(s, i + 1) ELSE i

RECURSIVE LastNonSpace(_, _)
LastNonSpace(s, i) ==
    IF i < 1 THEN i
    ELSE IF IsSpace(s[i]) THEN LastNonSpace(s, i - 1) ELSE i

\* p.get_text(strip=True) of a paragraph holding one text node
get_text_strip(p) == SubSeq(p, FirstNonSpace(p, 1), LastNonSpace(p, Len(p)))

\* range(start, stop, step) for step > 0
RECURSIVE range(_, _, _)
range(start, stop, step) ==
    IF start >= stop THEN <<>>
    ELSE <<start>> \o range(start + step, stop, step)

\* s[i:j] for 0 <= i <= j
Slice(s, i, j) == SubSeq(s, i + 1, Min(j, Len(s)))

----------------------------------------------------------------------------
(* Exceptions and their messages *)

HTTPException(status, detail) ==
    [exc |-> "HTTPException", status |-> status, detail |-> detail]

KeyError(key) == [exc |-> "KeyError", key |-> key]

\* str(e) of an HTTPStatusError for a response of the given status
StrHTTPStatusError(code) == <<"status ", ToString(code)>>

\* str(e) of a RequestError
StrRequestError == <<"ConnectTimeout">>

\* str(e) of an error of the completion service
StrLLMError == <<"RateLimitError">>

\* str(e): starlette prints an HTTPException as "status: detail",
\* python prints a KeyError as the repr of its key
Str(e) ==
    IF e.exc = "HTTPException" THEN <<ToString(e.status), ": ">> \o e.detail
    ELSE <<"'" \o e.key \o "'">>

----------------------------------------------------------------------------
(* scrape_url *)

MinParagraphLen == 100

NoContentDetail == <<"No readable content found on the page.">>

\* what the GET of a page can yield: a status that raise_for_status rejects,
\* a transport error, or a page given as the list of its <p> elements
HttpStatus(code) == [kind |-> "status", code |-> code]
HttpNetErr == [kind |-> "neterr"]
HttpPage(paras) == [kind |-> "page", paras |-> paras]

\* the filter with >= in place of >
filtered_p_list_atLeast(p_list) ==
    LET texts == [i \in 1..Len(p_list) |-> get_text_strip(p_list[i])]
        long(t) == Len(t) >= MinParagraphLen
    IN SelectSeq(texts, long)

filtered_p_list(p_list) ==
    LET texts == [i \in 1..Len(p_list) |-> get_text_strip(p_list[i])]
        long(t) == Len(t) > MinParagraphLen
    IN SelectSeq(texts, long)

scrape_url(url, got) ==
    IF got.kind = "status"
    THEN [st |-> "exc",
          exc |-> HTTPException(got.code, <<"HTTP error: ">> \o StrHTTPStatusError(got.code))]
    ELSE IF got.kind = "neterr"
    THEN [st |-> "exc",
          exc |-> HTTPException(500, <<"Request failed: ">> \o StrRequestError)]
    ELSE LET extracted_content == JoinWith(<<"\n">>, filtered_p_list(got.paras))
         IN IF extracted_content = <<>>
            THEN [st |-> "exc", exc |-> HTTPException(400, NoContentDetail)]
            ELSE [st |-> "ok", result |-> [url |-> url, content |-> extracted_content]]

----------------------------------------------------------------------------
(* the split step of the pipeline *)

max_chunk_size == 3000

\* the split step with slices one character short
Chunker_shortSlice(all_content, size) ==
    LET starts == range(0, Len(all_content), size)
    IN [k \in 1..Len(starts) |-> Slice(all_content, starts[k], starts[k] + size - 1)]

Chunker(all_content, size) ==
    LET starts == range(0, Len(all_content), size)
    IN [k \in 1..Len(starts) |-> Slice(all_content, starts[k], starts[k] + size)]

----------------------------------------------------------------------------
(* summarize *)

EmptyContentDetail == <<"Please provide content to summarize.">>

NoSummary == <<"No summary available.">>

\* what the completion service can yield: an error, or a response with choices
LLMErr == [kind |-> "err"]
LLMChoices(choices) == [kind |-> "choices", choices |-> choices]

\* summarize up to its await: the empty-content check of line 118
summarize_enter(content) ==
    IF content = <<>>
    THEN [st |-> "exc", exc |-> HTTPException(400, EmptyContentDetail)]
    ELSE [st |-> "running"]

\* summarize after its await (lines 130-133)
summarize_return(got) ==
    IF got.kind = "err"
    THEN [st |-> "exc", exc |-> HTTPException(500, <<"An error occurred: ">> \o StrLLMError)]
    ELSE [st |-> "ok",
          result |-> [summary |-> IF got.choices # <<>> THEN got.choices[1] ELSE NoSummary]]

----------------------------------------------------------------------------
(* search_topic *)

SupportedEngines == {"google", "bing"}

UnsupportedDetail == <<"Unsupported search engine. Use 'google' or 'bing'.">>

Title(k) == "title" \o ToString(k)
Link(k) == "url" \o ToString(k)

\* the body a backend answers with for n results, in its own shape; a backend
\* with nothing to report leaves the list out
BackendJson(backend, n) ==
    IF backend = "google"
    THEN IF n = 0 THEN [kind |-> "customsearch#search"]
         ELSE [kind |-> "customsearch#search",
               items |-> [k \in 1..n |-> [title |-> Title(k), link |-> Link(k)]]]
    ELSE IF n = 0 THEN [type |-> "SearchResponse"]
         ELSE [type |-> "SearchResponse",
               webPages |-> [value |-> [k \in 1..n |-> [name |-> Title(k), url |-> Link(k)]]]]

Get(d, key, default) == IF key \in DOMAIN d THEN d[key] ELSE default

\* the engine dispatch with the default engine as the fallback
search_topic_enter_fallback(eng) ==
    IF eng = "bing" THEN [st |-> "running", backend |-> "bing"]
    ELSE [st |-> "running", backend |-> "google"]

\* search_topic up to its await: the engine dispatch of lines 52-63
search_topic_enter(eng) ==
    IF eng = "google" THEN [st |-> "running", backend |-> "google"]
    ELSE IF eng = "bing" THEN [st |-> "running", backend |-> "bing"]
    ELSE [st |-> "ok", result |-> [error |-> UnsupportedDetail]]

\* search_topic after its await (lines 68-83)
search_topic_return(eng, got) ==
    IF got.kind = "status" THEN [error |-> StrHTTPStatusError(got.code)]
    ELSE IF got.kind = "neterr" THEN [error |-> StrRequestError]
    ELSE LET results == got.body
             articles ==
                 IF eng = "google"
                 THEN LET items == Get(results, "items", <<>>)
                      IN [k \in 1..Len(items) |->
                             [title |-> items[k].title, link |-> items[k].link]]
                 ELSE LET value == Get(Get(results, "webPages", [none |-> 0]), "value", <<>>)
                      IN [k \in 1..Len(value) |->
                             [title |-> value[k].name, link |-> value[k].url]]
         IN [query |-> "topic", engine |-> eng, articles |-> articles]

----------------------------------------------------------------------------
(* The inputs of the model *)

Engines == {"google", "bing", "yahoo"}

SearchOutcomes(backend) ==
    {HttpStatus(403), HttpNetErr}
    \cup {[kind |-> "json", body |-> BackendJson(backend, n)] : n \in 0..MaxArticles}

\* pages the pipeline meets: one short paragraph before one long one, one long
\* paragraph that nearly fills a chunk, and a page with short paragraphs only
PageA == <<Rep(MinParagraphLen, "c"), Rep(MinParagraphLen + 1, "a")>>
PageB == <<Rep(max_chunk_size - MinParagraphLen, "b")>>
PageNone == <<Rep(MinParagraphLen, "c")>>

PageOutcomes == {HttpStatus(404), HttpNetErr, HttpPage(PageA), HttpPage(PageB), HttpPage(PageNone)}

LLMOutcomes == {LLMErr, LLMChoices(<<>>), LLMChoices(<<(<<"x">>)>>), LLMChoices(<<(<<>>)>>)}

----------------------------------------------------------------------------
(* asyncio.gather *)

Running(tasks) == {i \in DOMAIN tasks : tasks[i].st = "running"}
Failed(tasks) == {i \in DOMAIN tasks : tasks[i].st = "exc"}
AllOk(tasks) == \A i \in DOMAIN tasks : tasks[i].st = "ok"

\* the exception gather raises: that of the first task to fail
FirstExc(tasks, done) ==
    LET k == CHOOSE k \in 1..Len(done) :
                 /\ tasks[done[k]].st = "exc"
                 /\ \A m \in 1..(k - 1) : tasks[done[m]].st # "exc"
    IN tasks[done[k]].exc

\* the results in the order the tasks finished
GatherResults_completionOrder(tasks, done) == [i \in 1..Len(done) |-> tasks[done[i]].result]

\* the list gather returns: the results by position of the awaitable
GatherResults(tasks, done) == [i \in 1..Len(tasks) |-> tasks[i].result]

----------------------------------------------------------------------------
(* search_scrape_summarize *)

NoResponse == [kind |-> "none"]

\* the except clause of lines 173-175
ErrorResponse(e) ==
    [kind |-> "error", status |-> 500, detail |-> <<"An error occurred: ">> \o Str(e)]

Raise(e) ==
    /\ pc' = "failed"
    /\ response' = ErrorResponse(e)

all_content == JoinWith(<<"\n">>, contents)

\* lines 168-169 up to the await inside summarize; sc and lc are the calls made
\* so far in this step
ReduceStage(sc, lc, chunk_summaries) ==
    LET content == JoinWith(<<" ">>, chunk_summaries)
        t == summarize_enter(content)
    IN /\ summCalls' = Append(sc, content)
       /\ IF t.st = "exc"
          THEN /\ llmCalls' = lc
               /\ Raise(t.exc)
          ELSE /\ llmCalls' = Append(lc, content)
               /\ pc' = "reduce_wait"
               /\ response' = response

\* lines 153-163 up to the await of gather; gather of no task returns at once
MapStage(cont) ==
    LET blob == JoinWith(<<"\n">>, cont)
        ch == Chunker(blob, max_chunk_size)
        tasks == [k \in 1..Len(ch) |-> summarize_enter(ch[k])]
        sent(c) == c # <<>>
        failedAtOnce(k) == tasks[k].st = "exc"
    IN /\ contents' = cont
       /\ chunks' = ch
       /\ stask' = tasks
       /\ sdone' = SelectSeq([k \in 1..Len(ch) |-> k], failedAtOnce)
       /\ IF ch = <<>>
          THEN ReduceStage(summCalls, llmCalls, <<>>)
          ELSE /\ summCalls' = summCalls \o ch
               /\ llmCalls' = llmCalls \o SelectSeq(ch, sent)
               /\ pc' = "map_wait"
               /\ response' = response

\* lines 145-152 without the [:3] of line 148
FetchStage_allLinks(articles_response) ==
    IF "articles" \notin DOMAIN articles_response
    THEN /\ Raise(KeyError("articles"))
         /\ UNCHANGED <<urls, ftask, fdone, fetchCalls, contents, chunks, stask, sdone,
                        summCalls, llmCalls>>
    ELSE LET articles == articles_response.articles
             top == [i \in 1..Len(articles) |-> articles[i].link]
         IN /\ urls' = top
            /\ ftask' = [i \in 1..Len(top) |-> [st |-> "running"]]
            /\ fetchCalls' = fetchCalls \o top
            /\ fdone' = <<>>
            /\ IF top = <<>>
               THEN MapStage(<<>>)
               ELSE /\ pc' = "fetch_wait"
                    /\ UNCHANGED <<contents, chunks, stask, sdone, summCalls, llmCalls,
                                   response>>

\* lines 145-152 up to the await of gather
FetchStage(articles_response) ==
    IF "articles" \notin DOMAIN articles_response
    THEN /\ Raise(KeyError("articles"))
         /\ UNCHANGED <<urls, ftask, fdone, fetchCalls, contents, chunks, stask, sdone,
                        summCalls, llmCalls>>
    ELSE LET articles == articles_response.articles
             top == [i \in 1..Min(3, Len(articles)) |-> articles[i].link]
         IN /\ urls' = top
            /\ ftask' = [i \in 1..Len(top) |-> [st |-> "running"]]
            /\ fetchCalls' = fetchCalls \o top
            /\ fdone' = <<>>
            /\ IF top = <<>>
               THEN MapStage(<<>>)
               ELSE /\ pc' = "fetch_wait"
                    /\ UNCHANGED <<contents, chunks, stask, sdone, summCalls, llmCalls,
                                   response>>

\* the request arrives with an engine search_topic does not know
StartUnsupported ==
    /\ pc = "start"
    /\ search_topic_enter(engine).st = "ok"
    /\ searchResp' = search_topic_enter(engine).result
    /\ FetchStage(searchResp')
    /\ UNCHANGED <<engine, searchCalls, final_summary, scrapeVars, chunkVars>>

\* the request arrives and search_topic sends its GET (line 67)
StartSearch ==
    /\ pc = "start"
    /\ search_topic_enter(engine).st = "running"
    /\ searchCalls' = Append(searchCalls, search_topic_enter(engine).backend)
    /\ pc' = "search_wait"
    /\ UNCHANGED <<engine, searchResp, urls, ftask, fdone, fetchCalls, contents, chunks,
                   stask, sdone, summCalls, llmCalls, final_summary, response, scrapeVars,
                   chunkVars>>

\* the search backend answers; the pipeline runs on to its next await
SearchReturn ==
    /\ pc = "search_wait"
    /\ \E got \in SearchOutcomes(searchCalls[Len(searchCalls)]) :
          /\ searchResp' = search_topic_return(engine, got)
          /\ FetchStage(searchResp')
    /\ UNCHANGED <<engine, searchCalls, final_summary, scrapeVars, chunkVars>>

\* one scrape_url task finishes; tasks of a failed gather are not cancelled
FetchComplete(i) ==
    /\ ftask[i].st = "running"
    /\ \E got \in PageOutcomes : ftask' = [ftask EXCEPT ![i] = scrape_url(urls[i], got)]
    /\ fdone' = Append(fdone, i)
    /\ UNCHANGED <<pc, engine, searchCalls, searchResp, urls, fetchCalls, contents, chunks,
                   stask, sdone, summCalls, llmCalls, final_summary, response, scrapeVars,
                   chunkVars>>

\* a gather that waits for every task and keeps the pages that were fetched
FetchJoinFail_partial ==
    /\ pc = "fetch_wait"
    /\ Failed(ftask) # {}
    /\ Running(ftask) = {}
    /\ LET ok(i) == ftask[i].st = "ok"
           kept == SelectSeq([i \in 1..Len(ftask) |-> i], ok)
       IN MapStage([k \in 1..Len(kept) |-> ftask[kept[k]].result.content])
    /\ UNCHANGED <<engine, searchCalls, searchResp, urls, ftask, fdone, fetchCalls,
                   final_summary, scrapeVars, chunkVars>>

\* gather of line 37 raises the first exception of its tasks
FetchJoinFail ==
    /\ pc = "fetch_wait"
    /\ Failed(ftask) # {}
    /\ Raise(FirstExc(ftask, fdone))
    /\ UNCHANGED <<engine, searchCalls, searchResp, urls, ftask, fdone, fetchCalls, contents,
                   chunks, stask, sdone, summCalls, llmCalls, final_summary, scrapeVars,
                   chunkVars>>

\* gather of line 37 returns; the pipeline runs on to its next await
FetchJoinOk ==
    /\ pc = "fetch_wait"
    /\ AllOk(ftask)
    /\ LET results == GatherResults(ftask, fdone)
       IN MapStage([i \in 1..Len(results) |-> results[i].content])
    /\ UNCHANGED <<engine, searchCalls, searchResp, urls, ftask, fdone, fetchCalls,
                   final_summary, scrapeVars, chunkVars>>

\* one summarize task of the map stage finishes
SummarizeComplete(j) ==
    /\ stask[j].st = "running"
    /\ \E got \in LLMOutcomes : stask' = [stask EXCEPT ![j] = summarize_return(got)]
    /\ sdone' = Append(sdone, j)
    /\ UNCHANGED <<pc, engine, searchCalls, searchResp, urls, ftask, fdone, fetchCalls,
                   contents, chunks, summCalls, llmCalls, final_summary, response, scrapeVars,
                   chunkVars>>

\* a gather that waits for every task and keeps the summaries that were made
MapJoinFail_partial ==
    /\ pc = "map_wait"
    /\ Failed(stask) # {}
    /\ Running(stask) = {}
    /\ LET ok(k) == stask[k].st = "ok"
           kept == SelectSeq([k \in 1..Len(stask) |-> k], ok)
       IN ReduceStage(summCalls, llmCalls, [k \in 1..Len(kept) |-> stask[kept[k]].result.summary])
    /\ UNCHANGED <<engine, searchCalls, searchResp, urls, ftask, fdone, fetchCalls, contents,
                   chunks, stask, sdone, final_summary, scrapeVars, chunkVars>>

\* gather of line 163 raises the first exception of its tasks
MapJoinFail ==
    /\ pc = "map_wait"
    /\ Failed(stask) # {}
    /\ Raise(FirstExc(stask, sdone))
    /\ UNCHANGED <<engine, searchCalls, searchResp, urls, ftask, fdone, fetchCalls, contents,
                   chunks, stask, sdone, summCalls, llmCalls, final_summary, scrapeVars,
                   chunkVars>>

\* gather of line 163 returns; the pipeline runs on to the await of the reduce call
MapJoinOk ==
    /\ pc = "map_wait"
    /\ AllOk(stask)
    /\ LET summaries == GatherResults(stask, sdone)
       IN ReduceStage(summCalls, llmCalls, [k \in 1..Len(summaries) |-> summaries[k].summary])
    /\ UNCHANGED <<engine, searchCalls, searchResp, urls, ftask, fdone, fetchCalls, contents,
                   chunks, stask, sdone, final_summary, scrapeVars, chunkVars>>

\* the reduce call finishes (lines 169-175)
ReduceComplete ==
    /\ pc = "reduce_wait"
    /\ \E got \in LLMOutcomes :
          LET t == summarize_return(got)
          IN IF t.st = "exc"
             THEN /\ Raise(t.exc)
                  /\ UNCHANGED final_summary
             ELSE /\ final_summary' = t.result
                  /\ pc' = "done"
                  /\ response' = [kind |-> "ok", body |-> final_summary']
    /\ UNCHANGED <<engine, searchCalls, searchResp, urls, ftask, fdone, fetchCalls, contents,
                   chunks, stask, sdone, summCalls, llmCalls, scrapeVars, chunkVars>>

ScrapeIdle == spc = "off" /\ sin = HttpNetErr /\ sout = [st |-> "none"]
ChunkIdle == cpc = "off" /\ cs = <<>> /\ cm = 1 /\ cout = <<>>

PipeIdle(p) ==
    /\ pc = p
    /\ searchCalls = <<>>
    /\ searchResp = [none |-> 0]
    /\ urls = <<>>
    /\ ftask = <<>>
    /\ fdone = <<>>
    /\ fetchCalls = <<>>
    /\ contents = <<>>
    /\ chunks = <<>>
    /\ stask = <<>>
    /\ sdone = <<>>
    /\ summCalls = <<>>
    /\ llmCalls = <<>>
    /\ final_summary = [none |-> 0]
    /\ response = NoResponse

Init ==
    /\ engine \in Engines
    /\ PipeIdle("start")
    /\ ScrapeIdle
    /\ ChunkIdle

Next ==
    \/ StartUnsupported
    \/ StartSearch
    \/ SearchReturn
    \/ \E i \in DOMAIN ftask : FetchComplete(i)
    \/ FetchJoinFail
    \/ FetchJoinOk
    \/ \E j \in DOMAIN stask : SummarizeComplete(j)
    \/ MapJoinFail
    \/ MapJoinOk
    \/ ReduceComplete

Spec == Init /\ [][Next]_vars

----------------------------------------------------------------------------
(* /scrape called on its own *)

\* paragraphs around the length threshold, bare and wrapped in white space
Paragraphs ==
    { Rep(MinParagraphLen, "a"),
      Rep(MinParagraphLen + 1, "b"),
      <<" ">> \o Rep(MinParagraphLen, "c") \o <<"\n">>,
      <<"\n">> \o Rep(MinParagraphLen + 1, "d") \o <<" ">>,
      <<" ", "e", " ">> }

RECURSIVE SeqsUpTo(_, _)
SeqsUpTo(S, n) ==
    IF n = 0 THEN {<<>>}
    ELSE LET shorter == SeqsUpTo(S, n - 1)
         IN shorter \cup {Append(q, x) : q \in shorter, x \in S}

ScrapeInputs ==
    {HttpStatus(404), HttpStatus(503), HttpNetErr}
    \cup {HttpPage(p) : p \in SeqsUpTo(Paragraphs, MaxParas)}

\* the handler is entered and sends its GET (line 91)
ScrapeCall ==
    /\ spc = "call"
    /\ spc' = "wait"
    /\ UNCHANGED <<sin, sout, pipeVars, chunkVars>>

\* the GET is answered and the handler runs to its end (lines 92-108)
ScrapeReturn ==
    /\ spc = "wait"
    /\ \E got \in ScrapeInputs :
          /\ sin' = got
          /\ sout' = scrape_url("url", got)
    /\ spc' = "done"
    /\ UNCHANGED <<pipeVars, chunkVars>>

InitScrape ==
    /\ engine = "google"
    /\ PipeIdle("off")
    /\ spc = "call" /\ sin = HttpNetErr /\ sout = [st |-> "none"]
    /\ ChunkIdle

NextScrape == ScrapeCall \/ ScrapeReturn

SpecScrape == InitScrape /\ [][NextScrape]_vars

----------------------------------------------------------------------------
(* the split step on its own *)

ShortTexts == SeqsUpTo({"a", "b"}, MaxLen)

\* texts around one and two chunks of the pipeline's size
LongTexts ==
    {Rep(n, "a") : n \in {max_chunk_size - 1, max_chunk_size, max_chunk_size + 1,
                          2 * max_chunk_size, 2 * max_chunk_size + 1}}

\* line 158 for a text and a chunk size
Split ==
    /\ cpc = "call"
    /\ cout' = Chunker(cs, cm)
    /\ cpc' = "done"
    /\ UNCHANGED <<cs, cm, pipeVars, scrapeVars>>

InitChunk ==
    /\ engine = "google"
    /\ PipeIdle("off")
    /\ ScrapeIdle
    /\ cpc = "call"
    /\ cout = <<>>
    /\ \/ cs \in ShortTexts /\ cm \in 1..MaxChunk
       \/ cs \in ShortTexts \cup LongTexts /\ cm = max_chunk_size

NextChunk == Split

SpecChunk == InitChunk /\ [][NextChunk]_vars

----------------------------------------------------------------------------
(* Properties *)

SearchSucceeded == "articles" \in DOMAIN searchResp
SearchFailed == "error" \in DOMAIN searchResp
NoResults == SearchSucceeded /\ searchResp.articles = <<>>

\* C1: when the search returns zero results the run fails with a no-results
\* error before any page is fetched and before summarize is entered at all:
\* the error is not the summarizer's complaint about an empty blob.
C1_EmptySearchShortCircuits ==
    NoResults =>
        /\ pc = "failed"
        /\ response.kind = "error"
        /\ fetchCalls = <<>>
        /\ summCalls = <<>>
        /\ ~Carries(response.detail, EmptyContentDetail)

\* C2: once a fetch has failed the pipeline never leaves the fetch stage except
\* into failure: no list of contents is returned, nothing is chunked, summarize
\* is never entered and the client never gets a summary.
C2_FailFastFetchGroup ==
    Failed(ftask) # {} =>
        /\ pc \in {"fetch_wait", "failed"}
        /\ contents = <<>>
        /\ chunks = <<>>
        /\ summCalls = <<>>
        /\ llmCalls = <<>>
        /\ response.kind # "ok"
        /\ pc = "failed" => response.kind = "error"

C2_Witness ==
    /\ pc = "failed"
    /\ Failed(ftask) # {}
    /\ \E i \in DOMAIN ftask : ftask[i].st = "ok"

\* C3: once a chunk summarization has failed the pipeline never leaves the map
\* stage except into failure and the reduce call is never made; the reduce call
\* is made only when every chunk summarization has succeeded.
C3_MapBarrier ==
    /\ Failed(stask) # {} =>
           /\ pc \in {"map_wait", "failed"}
           /\ summCalls = chunks
           /\ llmCalls = chunks
           /\ response.kind # "ok"
           /\ pc = "failed" => response.kind = "error"
    /\ Len(summCalls) > Len(chunks) => AllOk(stask)

C3_Witness ==
    /\ pc = "failed"
    /\ Failed(stask) # {}
    /\ \E k \in DOMAIN stask : stask[k].st = "ok"

\* C4: the chunks are a contiguous in-order partition of the text: their
\* concatenation is the text, each has between 1 and size characters, there are
\* ceil(len/size) of them, and the empty text has none.
C4_ChunkerPartition ==
    cpc = "done" =>
        /\ JoinWith(<<>>, cout) = cs
        /\ \A k \in 1..Len(cout) : Len(cout[k]) >= 1 /\ Len(cout[k]) <= cm
        /\ cs # <<>> => /\ Len(cout) * cm >= Len(cs)
                        /\ (Len(cout) - 1) * cm < Len(cs)
        /\ cs = <<>> => cout = <<>>

C4_Witness ==
    /\ cpc = "done"
    /\ Len(cout) >= 2
    /\ Len(cout[Len(cout)]) < cm

\* C5: an engine other than the two supported ones makes search_topic answer
\* with the unsupported-engine error at once: no request goes to any backend.
C5_UnsupportedEngine ==
    (engine \notin SupportedEngines /\ pc # "start") =>
        /\ searchResp = [error |-> UnsupportedDetail]
        /\ searchCalls = <<>>
        /\ fetchCalls = <<>>

C5_Witness ==
    /\ engine \notin SupportedEngines
    /\ pc = "failed"

\* C6: when the request to the search backend fails, search_topic answers with
\* an error carrying the upstream detail after one request, and the run ends
\* with that search failure: no page is fetched, summarize is never entered and
\* the error the client gets carries the detail of the search failure.
C6_SearchFailurePropagates ==
    (SearchFailed /\ searchCalls # <<>>) =>
        /\ Len(searchCalls) = 1
        /\ searchResp.error \in {StrHTTPStatusError(403), StrRequestError}
        /\ pc = "failed"
        /\ fetchCalls = <<>>
        /\ summCalls = <<>>
        /\ response.kind = "error"
        /\ Carries(response.detail, searchResp.error)

\* C7: stages run in order and every call is made once: at most one search
\* request; pages are requested only after the search has answered; summarize is
\* entered only after every fetch has succeeded; the reduce call is made only
\* after every chunk summary has been made.  A run that ends well has made one
\* search request, one page request per link of the first 3 results, one
\* summarize call per chunk and then one reduce call on the joined summaries,
\* and returns the result of the reduce call.
C7_StageOrderAndCounts ==
    /\ Len(searchCalls) <= 1
    /\ fetchCalls # <<>> => SearchSucceeded
    /\ summCalls # <<>> => SearchSucceeded /\ AllOk(ftask)
    /\ Len(summCalls) > Len(chunks) => AllOk(stask)
    /\ pc = "done" =>
           /\ Len(searchCalls) = 1
           /\ Len(fetchCalls) = Min(3, Len(searchResp.articles))
           /\ \A i \in 1..Len(fetchCalls) : fetchCalls[i] = searchResp.articles[i].link
           /\ Len(summCalls) = Len(chunks) + 1
           /\ \A k \in 1..Len(chunks) : summCalls[k] = chunks[k]
           /\ summCalls[Len(summCalls)] =
                  JoinWith(<<" ">>, [k \in 1..Len(stask) |-> stask[k].result.summary])
           /\ llmCalls = summCalls
           /\ response = [kind |-> "ok", body |-> final_summary]

C7_Witness ==
    /\ pc = "done"
    /\ Len(searchResp.articles) > 3
    /\ Len(chunks) >= 2

\* C8: whatever the order in which the tasks finish, the i-th content is the
\* one fetched for the i-th url, the chunked blob is the contents joined in url
\* order, and the text given to the reduce call is the chunk summaries joined in
\* chunk order.
C8_OrderPreservingFanIn ==
    /\ contents # <<>> =>
           /\ Len(contents) = Len(urls)
           /\ \A i \in 1..Len(urls) :
                  /\ ftask[i].result.url = urls[i]
                  /\ contents[i] = ftask[i].result.content
           /\ JoinWith(<<>>, chunks) =
                  JoinWith(<<"\n">>, [i \in 1..Len(urls) |-> ftask[i].result.content])
    /\ (chunks # <<>> /\ Len(summCalls) > Len(chunks)) =>
           summCalls[Len(summCalls)] =
               JoinWith(<<" ">>, [k \in 1..Len(chunks) |-> stask[k].result.summary])

C8_Witness ==
    /\ pc \in {"reduce_wait", "done"}
    /\ Len(urls) >= 2
    /\ fdone[1] # 1
    /\ contents[fdone[1]] # contents[1]
    /\ Len(chunks) >= 2
    /\ sdone[1] # 1
    /\ stask[sdone[1]].result # stask[1].result

\* C9: a run that fails answers with one error, never a success, and the error
\* carries the detail of what failed: of the search error when the search
\* failed, of the scrape error when a page failed, of the summarizer's error
\* when a summarization failed; and when the search found nothing it does not
\* read as a summarizer error.
C9_ErrorsTellCauses ==
    pc = "failed" =>
        /\ response.kind = "error"
        /\ SearchFailed => Carries(response.detail, searchResp.error)
        /\ NoResults => ~Carries(response.detail, EmptyContentDetail)
        /\ Failed(ftask) # {} => Carries(response.detail, FirstExc(ftask, fdone).detail)
        /\ Failed(stask) # {} => Carries(response.detail, FirstExc(stask, sdone).detail)

NonSpaceIdx(p) == {i \in 1..Len(p) : p[i] \notin {" ", "\n"}}

\* the text of a paragraph without the white space around it
StrippedText(p) ==
    IF NonSpaceIdx(p) = {} THEN <<>>
    ELSE LET lo == CHOOSE i \in NonSpaceIdx(p) : \A j \in NonSpaceIdx(p) : i <= j
             hi == CHOOSE i \in NonSpaceIdx(p) : \A j \in NonSpaceIdx(p) : i >= j
         IN [k \in 1..(hi - lo + 1) |-> p[lo + k - 1]]

\* the paragraphs from the i-th on that are longer than 100 once stripped,
\* one per line
RECURSIVE KeptText(_, _)
KeptText(paras, i) ==
    IF i > Len(paras) THEN <<>>
    ELSE LET t == StrippedText(paras[i])
             rest == KeptText(paras, i + 1)
         IN IF Len(t) <= 100 THEN rest
            ELSE IF rest = <<>> THEN t
            ELSE t \o <<"\n">> \o rest

\* C10: for a page that was fetched, the content is the paragraphs whose
\* stripped text is longer than 100 characters, in document order, one per
\* line; with no such paragraph the call fails with the no-content error, and
\* a single paragraph of 101 characters is returned as it is; a fetch that
\* failed gives an error that is not the no-content error.
C10_PageExtractorThreshold ==
    spc = "done" =>
        IF sin.kind = "page"
        THEN /\ KeptText(sin.paras, 1) # <<>> =>
                    /\ sout.st = "ok"
                    /\ sout.result.content = KeptText(sin.paras, 1)
             /\ (\A i \in 1..Len(sin.paras) : Len(StrippedText(sin.paras[i])) <= 100) =>
                    /\ sout.st = "exc"
                    /\ sout.exc = HTTPException(400, NoContentDetail)
             /\ (Len(sin.paras) = 1 /\ Len(StrippedText(sin.paras[1])) = 101) =>
                    /\ sout.st = "ok"
                    /\ sout.result.content = StrippedText(sin.paras[1])
        ELSE /\ sout.st = "exc"
             /\ sout.exc.detail # NoContentDetail

C10_Witness ==
    /\ spc = "done"
    /\ sin.kind = "page"
    /\ Len(sin.paras) = 3
    /\ Len(sin.paras[1]) = 102
    /\ Len(sin.paras[2]) = 103
    /\ sout.st = "ok"
    /\ Len(sout.result.content) = 203

====
